---- MODULE Spec2Model ----
(***************************************************************************)
(* The Home component of the landing page: the mode switcher with its      *)
(* delayed insight swap, the overlay effect, and the three.js scene effect *)
(* (createParticles, updateLines, animate, the event handlers and the      *)
(* effect cleanups).                                                       *)
(*                                                                         *)
(* Numbers.  The code computes in IEEE floats; the model computes in       *)
(* fixed point.  Lengths, coordinates and color channels are integers in   *)
(* hundredths (x = 250 stands for 2.5), angles are in hundredths of a      *)
(* radian, times are in milliseconds.  Math.sin, Math.cos, Math.sqrt,      *)
(* Math.acos, Math.exp are integer approximations of the same functions,   *)
(* and every product of two scaled numbers is divided back by 100 with     *)
(* rounding to nearest.                                                    *)
(***************************************************************************)
EXTENDS Integers, Sequences, FiniteSets, TLC

VARIABLES
    vizMode,            \* useState('graph')
    insight,            \* useState(VIZ_DESCRIPTIONS['graph'])
    isUpdatingInsight,  \* useState(false)
    isOverlayMinimized, \* useState(false)
    configRef,          \* configRef.current: [particleCount, mode]
    swapTimers,         \* pending setTimeout(..., 500) callbacks of changeVizMode, oldest first
    timeout,            \* the overlay effect's 5000 ms timer: [pending, due]
    now,                \* Date.now(), ms
    window,             \* [innerWidth, innerHeight]
    listeners,          \* the registered event listeners of the two effects
    containerRef,       \* containerRef.current: "div" or "null"
    canvasInContainer,  \* renderer.domElement is a child of the container div
    animationId,        \* [pending]: a requestAnimationFrame callback is scheduled
    mounted,            \* the component is mounted
    cleanupRuns,        \* how many times the effect cleanups have run
    cleanupThrew,       \* the last cleanup run raised an exception
    isMobile,           \* const isMobile, read once by the scene effect
    targets,            \* const targets: mode -> flat buffer
    positions,          \* particles.geometry.attributes.position.array
    colors,             \* particles.geometry.attributes.color.array
    mouse,              \* THREE.Vector2 mouse: <<x, y>>
    camera,             \* [x, y, aspect]
    rendererSize,       \* the size last given to renderer.setSize: <<w, h>>
    rotation,           \* [particles, linesMesh]: each <<x, y, z>>
    linesVisible,       \* linesMesh.visible
    linePositions,      \* the position attribute of linesMesh.geometry
    frames,             \* number of animate() runs so far
    calls               \* number of changeVizMode calls so far

vars == << vizMode, insight, isUpdatingInsight, isOverlayMinimized, configRef,
           swapTimers, timeout, now, window, listeners, containerRef,
           canvasInContainer, animationId, mounted, cleanupRuns, cleanupThrew,
           isMobile, targets, positions, colors, mouse, camera, rendererSize,
           rotation, linesVisible, linePositions, frames, calls >>

(***************************************************************************)
(* Bounds of the model.                                                    *)
(***************************************************************************)
\* particleCount on a viewport narrower than 768 px (the code uses 800)
MobileCount == 4
\* particleCount otherwise (the code uses 1500)
DesktopCount == 5
\* checkLimit of updateLines on mobile (the code uses 15)
MobileCheckLimit == 2
\* checkLimit of updateLines otherwise (the code uses 40)
DesktopCheckLimit == 3
\* changeVizMode calls and animation frames explored, together (the frame the
\* scene effect runs itself is not counted)
MaxSteps == 2
\* clock advances explored
MaxTicks == 2
\* one clock advance, ms
TickMs == 2500
\* invocations of the effect cleanups explored
MaxCleanups == 2

(***************************************************************************)
(* Program constants.                                                      *)
(***************************************************************************)
MobileBreakpoint == 768
SwapDelayMs == 500
AutoMinimizeMs == 5000
DefaultThreshold == 12
NeuralThreshold == 30
NashThreshold == 8
MatrixThreshold == 14
MobileStep == 3
DesktopStep == 2

Modes == { "graph", "orbit", "matrix", "threebody", "neural", "quant",
           "nash", "lorenz", "golden", "topology", "calculus", "series" }

\* VIZ_DESCRIPTIONS: title and the opening words of the text
VIZ_DESCRIPTIONS ==
    [ graph     |-> [title |-> "Network Theory",           text |-> "You are seeing an Erdos-Renyi random graph."],
      orbit     |-> [title |-> "Orbital Mechanics",        text |-> "Particles are arranged in concentric rings"],
      matrix    |-> [title |-> "Linear Algebra",           text |-> "A structured 3D lattice representing a Vector Space."],
      threebody |-> [title |-> "The Three-Body Problem",   text |-> "Three distinct gravitational clusters interact chaotically."],
      lorenz    |-> [title |-> "The Lorenz Attractor",     text |-> "A visualization of the 'Butterfly Effect'."],
      neural    |-> [title |-> "Multi-Layer Perceptron",   text |-> "A visualization of Deep Learning."],
      quant     |-> [title |-> "Monte Carlo Simulation",   text |-> "Geometric Brownian Motion."],
      nash      |-> [title |-> "Nash Equilibrium",         text |-> "A Hyperbolic Paraboloid (Saddle Point)."],
      golden    |-> [title |-> "The Golden Ratio",         text |-> "Phyllotaxis Optimization."],
      topology  |-> [title |-> "Topology",                 text |-> "The Klein Bottle."],
      calculus  |-> [title |-> "Calculus & Motion",        text |-> "Riemann Surface."],
      series    |-> [title |-> "Fourier Series",           text |-> "Spherical Harmonics."] ]

\* VIZ_DESCRIPTIONS[mode]: undefined for a key the table does not hold
Describe(mode) ==
    IF mode \in DOMAIN VIZ_DESCRIPTIONS THEN VIZ_DESCRIPTIONS[mode] ELSE "undefined"

(***************************************************************************)
(* Fixed-point arithmetic.                                                 *)
(***************************************************************************)
\* a / b rounded to nearest, b > 0
RDiv(a, b) == (2 * a + b) \div (2 * b)

\* the product of two numbers in hundredths, in hundredths
Mul(a, b) == RDiv(a * b, 100)

\* Math.sin of an angle in hundredths of a radian, in hundredths
\* (Bhaskara's rational approximation on each half period)
Sin100(a) ==
    LET x == a % 628
        h == IF x < 314 THEN x ELSE x - 314
        p == h * (314 - h)
        v == RDiv(1600 * p, 492980 - 4 * p)
    IN  IF x < 314 THEN v ELSE 0 - v

\* Math.cos
Cos100(a) == Sin100(a + 157)

\* Math.acos of a value in hundredths: the least angle whose cosine is not above it
Acos100(v) ==
    CHOOSE a \in 0..314 :
        /\ (Cos100(a) <= v \/ a = 314)
        /\ \A b \in 0..(a - 1) : Cos100(b) > v

RECURSIVE IsqrtIn(_, _, _)
IsqrtIn(n, lo, hi) ==
    IF lo >= hi THEN lo
    ELSE LET mid == (lo + hi + 1) \div 2
         IN  IF mid * mid <= n THEN IsqrtIn(n, mid, hi) ELSE IsqrtIn(n, lo, mid - 1)

\* Math.sqrt of a value in hundredths, in hundredths
Sqrt100(v) == IsqrtIn(v * 100, 0, 40000)

\* Math.pow(t, 1.5) of a value in hundredths
Pow15(t) == Mul(t, Sqrt100(t))

\* Math.exp(-q) for q >= 0 in hundredths: the reciprocal of the cubic Taylor
\* polynomial of exp(q); below a hundredth from q = 10 on
ExpNeg100(q) ==
    IF q > 1000 THEN 0
    ELSE RDiv(10000, 100 + q + RDiv(q * q, 200) + RDiv(q * q * q, 60000))

(***************************************************************************)
(* Math.random(): a pseudo-random stream.  The generator's state counts    *)
(* the draws made so far; a draw is a fixed scramble of the count into one *)
(* of twenty levels u = r / 20, r in 0..19.                                *)
(***************************************************************************)
RandomLevel(s) == ((s * s * s + 7 * s * s + 13 * s + 5) % 1009) % 20

(***************************************************************************)
(* createParticles.                                                        *)
(***************************************************************************)
\* colors of configRef.current: THREE.Color(0xD4AF37) and THREE.Color(0xFFFFFF)
ColorOf(isGold) == IF isGold THEN << 83, 69, 22 >> ELSE << 100, 100, 100 >>

\* typed-array store: positions[k] = v, ignored outside the buffer (k from 0)
Store(buf, k, v) == IF k + 1 \in DOMAIN buf THEN [buf EXCEPT ![k + 1] = v] ELSE buf

\* Array.prototype.push of three numbers
Push3(buf, t) == buf \o << t[1], t[2], t[3] >>

\* one Euler step of the Lorenz system, the state in thousandths:
\* sigma = 10, rho = 28, beta = 8 / 3, dt = 0.01
LorenzStep(l) ==
    LET dx == RDiv(10 * (l.y - l.x), 100)
        dy == RDiv(RDiv(l.x * (28000 - l.z), 1000) - l.y, 100)
        dz == RDiv(RDiv(l.x * l.y, 1000) - RDiv(8 * l.z, 3), 100)
    IN  [x |-> l.x + dx, y |-> l.y + dy, z |-> l.z + dz]

\* the body of the loop of createParticles for particle i
ParticleStep(acc, i, pCount) ==
    LET r(k) == RandomLevel(acc.rng + k)
        \* 1. Graph (Cloud)
        x == (r(1) - 10) * 200
        y == (r(2) - 10) * 200
        z == (r(3) - 10) * 100
        \* Color Initialization
        color == ColorOf(r(4) > 12)
        \* 2. Orbit (Rings)
        orbitAngle == RDiv(r(5) * 628, 20)
        ring == (r(6) * 3) \div 20
        baseRad == 600 + ring * 500
        ringRad == baseRad + (r(7) - 10) * 10
        orbit == << Mul(Cos100(orbitAngle), ringRad), (r(8) - 10) * 10,
                    Mul(Sin100(orbitAngle), ringRad) >>
        \* 3. Matrix (Grid)
        spacing == 350
        matrix == << ((i % 15) - 7) * spacing,
                     (((i \div 15) % 15) - 7) * spacing,
                     ((i \div 225) - 2) * spacing >>
        \* 4. Three Body (Clusters)
        clusterIdx == i % 3
        tAngle == RDiv(r(9) * 628, 20)
        tRad == r(10) * 20
        threebody ==
            IF clusterIdx = 0
              THEN << Mul(Cos100(tAngle), tRad) - 1200, Mul(Sin100(tAngle), tRad), 0 >>
            ELSE IF clusterIdx = 1
              THEN << 1200 + Mul(Cos100(tAngle), tRad), Mul(Sin100(tAngle), tRad), 0 >>
            ELSE << Mul(Cos100(tAngle), tRad + 1000), 1200 + Mul(Sin100(tAngle), tRad),
                    Sin100(tAngle) * 5 >>
        \* 5. Neural (Layers)
        layer == i % 5
        neural == << (layer - 2) * 700, (r(11) - 10) * 80, (r(12) - 10) * 80 >>
        \* 6. Quant (Fan)
        quantX == RDiv(i * 4500, pCount) - 2000
        timeRatio == RDiv((quantX + 2000) * 100, 4500)
        volatility == Pow15(timeRatio) * 18
        pathOffset == RDiv((r(13) - 10) * volatility, 20)
        quant == << quantX, pathOffset + timeRatio * 8,
                    RDiv((r(14) - 10) * (volatility + 200), 20) >>
        \* 7. Nash (Saddle)
        sx == (r(15) - 10) * 120
        sz == (r(16) - 10) * 120
        sy == RDiv((sx * sx - sz * sz) * 8, 10000)
        nash == << sx, sy, sz >>
        \* 8. Lorenz
        l == LorenzStep(acc.l)
        lorenz == << RDiv(l.x * 8, 100), RDiv(l.y * 8, 100), RDiv((l.z - 25000) * 8, 100) >>
        \* 9. Golden Ratio (Phyllotaxis)
        theta == i * 240
        radius == RDiv(Sqrt100(i * 100), 2)
        golden == << Mul(Cos100(theta), radius), RDiv(i * 1000, pCount) - 500,
                     Mul(Sin100(theta), radius) >>
        \* 10. Topology (Klein Bottle - Figure 8 Immersion)
        u == RDiv(i * 628, pCount)
        v == RDiv((i % 50) * 628, 50)
        cosU == Cos100(u)
        sinU == Sin100(u)
        cosU2 == Cos100(RDiv(u, 2))
        sinU2 == Sin100(RDiv(u, 2))
        sinV == Sin100(v)
        sin2V == Sin100(2 * v)
        kr == 300 + Mul(cosU2, sinV) - Mul(sinU2, sin2V)
        topology == << Mul(kr, cosU) * 4, Mul(kr, sinU) * 4,
                       (Mul(sinU2, sinV) + Mul(cosU2, sin2V)) * 4 >>
        \* 11. Calculus (Riemann Surface - Helicoid)
        cU == RDiv(i * 1000, pCount) - 500
        cV == RDiv((i % 50) * 628, 10)
        calculus == << Mul(cU, Cos100(cV)) * 2, Mul(cU, Sin100(cV)) * 2,
                       (RDiv(cV, 2) - 500) * 2 >>
        \* 12. Series (Spherical Harmonics)
        sTheta == RDiv(r(17) * 628, 20)
        sPhi == Acos100(r(18) * 10 - 100)
        sR == 1000 + 5 * Mul(Sin100(6 * sTheta), Cos100(5 * sPhi))
        series == << Mul(Mul(sR, Sin100(sPhi)), Cos100(sTheta)),
                     Mul(Mul(sR, Sin100(sPhi)), Sin100(sTheta)),
                     Mul(sR, Cos100(sPhi)) >>
    IN  [ rng |-> acc.rng + 18,
          l |-> l,
          positions |-> Store(Store(Store(acc.positions, i * 3, x), i * 3 + 1, y), i * 3 + 2, z),
          colors |-> Store(Store(Store(acc.colors, i * 3, color[1]), i * 3 + 1, color[2]),
                           i * 3 + 2, color[3]),
          targets |->
            [ graph     |-> Push3(acc.targets.graph, << x, y, z >>),
              orbit     |-> Push3(acc.targets.orbit, orbit),
              matrix    |-> Push3(acc.targets.matrix, matrix),
              threebody |-> Push3(acc.targets.threebody, threebody),
              neural    |-> Push3(acc.targets.neural, neural),
              quant     |-> Push3(acc.targets.quant, quant),
              nash      |-> Push3(acc.targets.nash, nash),
              lorenz    |-> Push3(acc.targets.lorenz, lorenz),
              golden    |-> Push3(acc.targets.golden, golden),
              topology  |-> Push3(acc.targets.topology, topology),
              calculus  |-> Push3(acc.targets.calculus, calculus),
              series    |-> Push3(acc.targets.series, series) ] ]

RECURSIVE ParticleLoop(_, _, _)
\* for (let i = 0; i < pCount; i++): the buffers after the first n iterations
ParticleLoop(start, n, pCount) ==
    IF n = 0 THEN start ELSE ParticleStep(ParticleLoop(start, n - 1, pCount), n - 1, pCount)

\* a variant that allocates one color entry per particle
NewBuffersShortColors(seed, pCount) ==
    [ rng |-> seed,
      l |-> [x |-> 100, y |-> 0, z |-> 0],
      positions |-> [k \in 1..(pCount * 3) |-> 0],
      colors |-> [k \in 1..pCount |-> 0],
      targets |-> [m \in Modes |-> << >>] ]

\* a variant that starts the Lorenz state at a random x
NewBuffersRandomLorenz(seed, pCount) ==
    [ rng |-> seed,
      l |-> [x |-> 100 + RandomLevel(seed), y |-> 0, z |-> 0],
      positions |-> [k \in 1..(pCount * 3) |-> 0],
      colors |-> [k \in 1..(pCount * 3) |-> 0],
      targets |-> [m \in Modes |-> << >>] ]

\* new Float32Array(pCount * 3) twice, the empty targets, lx, ly, lz
NewBuffers(seed, pCount) ==
    [ rng |-> seed,
      l |-> [x |-> 100, y |-> 0, z |-> 0],
      positions |-> [k \in 1..(pCount * 3) |-> 0],
      colors |-> [k \in 1..(pCount * 3) |-> 0],
      targets |-> [m \in Modes |-> << >>] ]

\* createParticles with Math.random seeded by seed: the buffers it leaves
createParticles(seed, pCount) == ParticleLoop(NewBuffers(seed, pCount), pCount, pCount)

(***************************************************************************)
(* updateLines.                                                            *)
(***************************************************************************)
\* a variant that keeps the lines shown in quant mode
HiddenLineModesNoQuant == { "lorenz", "series", "topology", "calculus" }

\* the modes for which updateLines hides the mesh and returns
HiddenLineModes == { "lorenz", "quant", "series", "topology", "calculus" }

\* a variant that leaves nash at the default threshold
ThresholdNashDefault(mode) ==
    IF mode = "neural" THEN NeuralThreshold
    ELSE IF mode = "matrix" THEN MatrixThreshold
    ELSE DefaultThreshold

\* let threshold = 12, overridden for neural, nash and matrix
Threshold(mode) ==
    LET t0 == DefaultThreshold
        t1 == IF mode = "neural" THEN NeuralThreshold ELSE t0
        t2 == IF mode = "nash" THEN NashThreshold ELSE t1
    IN  IF mode = "matrix" THEN MatrixThreshold ELSE t2

\* const checkLimit = isMobile ? 15 : 40
CheckLimit(mobile) == IF mobile THEN MobileCheckLimit ELSE DesktopCheckLimit

\* const step = isMobile ? 3 : 2
Step(mobile) == IF mobile THEN MobileStep ELSE DesktopStep

\* Math.min
Min(a, b) == IF a < b THEN a ELSE b

\* distSq of particles i and j (from 0), in squared hundredths
DistSq(pos, i, j) ==
    LET dx == pos[i * 3 + 1] - pos[j * 3 + 1]
        dy == pos[i * 3 + 2] - pos[j * 3 + 2]
        dz == pos[i * 3 + 3] - pos[j * 3 + 3]
    IN  dx * dx + dy * dy + dz * dz

\* a variant that also joins a pair exactly at the threshold
NearInclusive(distSq, mode) == distSq <= Threshold(mode) * 10000

\* if (distSq < threshold): the threshold is in units, distSq in squared hundredths
Near(distSq, mode) == distSq < Threshold(mode) * 10000

\* the six numbers pushed for the pair (i, j)
Segment(pos, i, j) ==
    << pos[i * 3 + 1], pos[i * 3 + 2], pos[i * 3 + 3],
       pos[j * 3 + 1], pos[j * 3 + 2], pos[j * 3 + 3] >>

RECURSIVE InnerLoop(_, _, _, _, _, _, _)
\* for (let j = ...; j < Math.min(i + checkLimit, limit); j++)
InnerLoop(out, pos, mode, i, j, checkLimit, limit) ==
    IF j < Min(i + checkLimit, limit)
      THEN InnerLoop(IF Near(DistSq(pos, i, j), mode) THEN out \o Segment(pos, i, j) ELSE out,
                     pos, mode, i, j + 1, checkLimit, limit)
      ELSE out

RECURSIVE OuterLoop(_, _, _, _, _, _, _)
\* for (let i = 0; i < limit; i += step)
OuterLoop(out, pos, mode, i, step, checkLimit, limit) ==
    IF i < limit
      THEN OuterLoop(InnerLoop(out, pos, mode, i, i + 1, checkLimit, limit),
                     pos, mode, i + step, step, checkLimit, limit)
      ELSE out

\* updateLines: linesMesh.visible and the position attribute it leaves
updateLines(mode, pos, mobile, limit, oldLines) ==
    IF mode \in HiddenLineModes
      THEN [visible |-> FALSE, positions |-> oldLines]
      ELSE [visible |-> TRUE,
            positions |-> OuterLoop(<< >>, pos, mode, 0, Step(mobile), CheckLimit(mobile), limit)]

(***************************************************************************)
(* animate.                                                                *)
(***************************************************************************)
\* the modes of the first branch of both rotation blocks
YawModes == { "lorenz", "nash", "orbit" }

\* the "Rotation" block
EarlyRotation(rot, mode, time) ==
    IF mode \in YawModes
      THEN [particles |-> << rot.particles[1], RDiv(time, 100), rot.particles[3] >>,
            linesMesh |-> << rot.linesMesh[1], RDiv(time, 100), rot.linesMesh[3] >>]
      ELSE [particles |-> << rot.particles[1], 0, rot.particles[3] >>,
            linesMesh |-> << rot.linesMesh[1], 0, rot.linesMesh[3] >>]

\* a variant without the reset of both rotations to zero
LateRotationNoReset(rot, mode, time) ==
    LET p == rot.particles
        l == rot.linesMesh
    IN  IF mode \in YawModes
          THEN [particles |-> << p[1], RDiv(time, 100), p[3] >>,
                linesMesh |-> << l[1], RDiv(time, 100), l[3] >>]
        ELSE IF mode = "topology"
          THEN [particles |-> << RDiv(time, 100), RDiv(time, 100), p[3] >>, linesMesh |-> l]
        ELSE IF mode = "calculus"
          THEN [particles |-> << p[1], p[2], RDiv(time, 100) >>, linesMesh |-> l]
        ELSE IF mode = "series"
          THEN [particles |-> << p[1], RDiv(time, 50), p[3] >>, linesMesh |-> l]
        ELSE IF mode = "limitless"
          THEN [particles |-> << RDiv(time, 200), RDiv(time, 200), p[3] >>, linesMesh |-> l]
        ELSE [particles |-> p, linesMesh |-> l]

\* the "Universal Rotation Reset & Logic" block
LateRotation(rot, mode, time) ==
    LET zero == << 0, 0, 0 >>
    IN  IF mode \in YawModes
          THEN [particles |-> << 0, RDiv(time, 100), 0 >>, linesMesh |-> << 0, RDiv(time, 100), 0 >>]
        ELSE IF mode = "topology"
          THEN [particles |-> << RDiv(time, 100), RDiv(time, 100), 0 >>, linesMesh |-> zero]
        ELSE IF mode = "calculus"
          THEN [particles |-> << 0, 0, RDiv(time, 100) >>, linesMesh |-> zero]
        ELSE IF mode = "series"
          THEN [particles |-> << 0, RDiv(time, 50), 0 >>, linesMesh |-> zero]
        ELSE IF mode = "limitless"
          THEN [particles |-> << RDiv(time, 200), RDiv(time, 200), 0 >>, linesMesh |-> zero]
        ELSE [particles |-> zero, linesMesh |-> zero]

\* the "Neural Pulse" block: the color buffer it leaves
NeuralPulse(col, pos, mode, time, pCount) ==
    IF mode # "neural" THEN col
    ELSE LET wavePos == (RDiv(time * 2, 5) % 4000) - 2000
             glow(i) == LET dist == pos[i * 3 + 1] - wavePos
                        IN  ExpNeg100(RDiv(dist * dist, 1000))
             channel(k) ==
                 LET i == (k - 1) \div 3
                     c == (k - 1) % 3
                 IN  IF c = 0 THEN 83 + RDiv(17 * glow(i), 100)
                     ELSE IF c = 1 THEN 68 + RDiv(32 * glow(i), 100)
                     ELSE 21 + RDiv(79 * glow(i), 100)
         IN  [k \in DOMAIN col |-> IF k <= pCount * 3 THEN channel(k) ELSE col[k]]

\* tx, ty, tz of particle i in the "Movement" block
MoveTarget(tg, mode, time, i) ==
    LET i3 == i * 3
        t(m) == << tg[m][i3 + 1], tg[m][i3 + 2], tg[m][i3 + 3] >>
    IN  IF mode = "orbit"
          THEN << t(mode)[1], t(mode)[2] + RDiv(Sin100(RDiv(time, 5) + 100 * i) * 3, 2), t(mode)[3] >>
        ELSE IF mode = "matrix"
          THEN << t(mode)[1],
                  t(mode)[2] + Sin100(RDiv(time, 10) + RDiv(t(mode)[1] * 3, 10)) * 2,
                  t(mode)[3] >>
        ELSE IF mode = "threebody"
          THEN << t(mode)[1] + Sin100(RDiv(time, 5) + 100 * i) * 2,
                  t(mode)[2] + Cos100(RDiv(time * 3, 20) + 100 * i) * 2,
                  t(mode)[3] + Sin100(RDiv(time, 10) + 100 * i) * 2 >>
        ELSE IF mode = "quant"
          THEN << t(mode)[1],
                  t(mode)[2] + Sin100(RDiv(time, 5) + RDiv(t(mode)[1], 10)) * 2,
                  t(mode)[3] >>
        ELSE IF mode \in { "graph", "neural", "nash", "lorenz", "golden", "topology",
                           "calculus", "series" }
          THEN t(mode)
        ELSE << 0, 0, 0 >>

\* a variant that adds 1.04 of the gap instead of 0.04
EaseOvershoot(p, t) == p + RDiv((t - p) * 104, 100)

\* positions[k] += (t - positions[k]) * 0.04
Ease(p, t) == p + RDiv((t - p) * 4, 100)

\* the "Movement" block: the position buffer it leaves
Movement(pos, tg, mode, time, pCount) ==
    [k \in DOMAIN pos |->
        IF k <= pCount * 3
          THEN Ease(pos[k], MoveTarget(tg, mode, time, (k - 1) \div 3)[((k - 1) % 3) + 1])
          ELSE pos[k]]

\* the camera easing toward the pointer
MoveCamera(cam, ms) ==
    [cam EXCEPT !.x = cam.x + RDiv((ms[1] * 3 - cam.x) * 5, 100),
                !.y = cam.y + RDiv((ms[2] * 3 + 1000 - cam.y) * 5, 100)]

\* a variant whose line rebuild still uses the mode the page was mounted with
animateStaleLines(mode, time, st) ==
    LET pCount == st.particleCount
        col == NeuralPulse(st.colors, st.positions, mode, time, pCount)
        rot == LateRotation(EarlyRotation(st.rotation, mode, time), mode, time)
        pos == Movement(st.positions, st.targets, mode, time, pCount)
        lines == updateLines("graph", pos, st.isMobile, pCount, st.linePositions)
    IN  [ camera |-> MoveCamera(st.camera, st.mouse),
          colors |-> col,
          rotation |-> rot,
          positions |-> pos,
          linesVisible |-> lines.visible,
          linePositions |-> lines.positions ]

\* one run of animate at Date.now() = time: what the frame leaves
animate(mode, time, st) ==
    LET pCount == st.particleCount
        col == NeuralPulse(st.colors, st.positions, mode, time, pCount)
        rot == LateRotation(EarlyRotation(st.rotation, mode, time), mode, time)
        pos == Movement(st.positions, st.targets, mode, time, pCount)
        lines == updateLines(mode, pos, st.isMobile, pCount, st.linePositions)
    IN  [ camera |-> MoveCamera(st.camera, st.mouse),
          colors |-> col,
          rotation |-> rot,
          positions |-> pos,
          linesVisible |-> lines.visible,
          linePositions |-> lines.positions ]

\* a variant whose Movement block writes the offset targets back into the
\* table
TargetsWrittenBack(tg, mode, time, pCount) ==
    [tg EXCEPT ![mode] =
        [k \in DOMAIN tg[mode] |-> MoveTarget(tg, mode, time, (k - 1) \div 3)[((k - 1) % 3) + 1]]]

\* the target table after a frame: the Movement block reads it into tx, ty, tz
\* and adds the time-varying offsets to those locals only
TargetsAfterFrame(tg, mode, time, pCount) == tg

(***************************************************************************)
(* The component: environment, handlers, effects.                          *)
(***************************************************************************)
\* window.innerWidth, window.innerHeight the environment may present
Viewports == { << 390, 844 >>, << 1280, 720 >> }

\* seeds of Math.random explored
Seeds == { 40 }

\* Date.now() when the effects run
StartTimes == { 1000 }

\* pointer positions explored: clientX, clientY as fractions of the viewport, in percent
Pointers == { << 100, 100 >> }

\* the controls that call changeVizMode, with the literal each passes
Affordances ==
    << [control |-> "foundations console", mode |-> "graph"],
       [control |-> "foundations console", mode |-> "orbit"],
       [control |-> "foundations console", mode |-> "matrix"],
       [control |-> "foundations console", mode |-> "threebody"],
       [control |-> "foundations console", mode |-> "lorenz"],
       [control |-> "map of mathematics", mode |-> "golden"],
       [control |-> "map of mathematics", mode |-> "topology"],
       [control |-> "map of mathematics", mode |-> "calculus"],
       [control |-> "map of mathematics", mode |-> "series"],
       [control |-> "card: dynamical systems", mode |-> "threebody"],
       [control |-> "card: random graphs", mode |-> "graph"],
       [control |-> "card: cellular automata", mode |-> "matrix"],
       [control |-> "card: chaos theory", mode |-> "lorenz"],
       [control |-> "domain console", mode |-> "neural"],
       [control |-> "domain console", mode |-> "quant"],
       [control |-> "domain console", mode |-> "nash"] >>

\* the scene state animate reads
Scene ==
    [ particleCount |-> configRef.particleCount, isMobile |-> isMobile,
      targets |-> targets, positions |-> positions, colors |-> colors,
      mouse |-> mouse, camera |-> camera, rotation |-> rotation,
      linePositions |-> linePositions ]

\* window.innerWidth < 768
Narrow(w) == w[1] < MobileBreakpoint

\* window.innerWidth / window.innerHeight, in hundredths
Aspect(w) == RDiv(w[1] * 100, w[2])

\* the state once both effects have run: the overlay effect's timer and scroll
\* listener, the scene effect's setup, createParticles, createLines, the two
\* listeners and the first animate()
MountedState(vp, seed, start) ==
    LET mobile == Narrow(vp)
        pCount == IF mobile THEN MobileCount ELSE DesktopCount
        made == createParticles(seed, pCount)
        zero == << 0, 0, 0 >>
        f == animate("graph", start,
                     [ particleCount |-> pCount, isMobile |-> mobile,
                       targets |-> made.targets, positions |-> made.positions,
                       colors |-> made.colors, mouse |-> << 0, 0 >>,
                       camera |-> [x |-> 0, y |-> 800, aspect |-> Aspect(vp)],
                       rotation |-> [particles |-> zero, linesMesh |-> zero],
                       linePositions |-> << >> ])
    IN  [ vizMode |-> "graph",
          insight |-> Describe("graph"),
          isUpdatingInsight |-> FALSE,
          isOverlayMinimized |-> FALSE,
          configRef |-> [particleCount |-> pCount, mode |-> "graph"],
          swapTimers |-> << >>,
          timeout |-> [pending |-> TRUE, due |-> start + AutoMinimizeMs],
          now |-> start,
          window |-> vp,
          listeners |-> { "scroll", "resize", "mousemove" },
          containerRef |-> "div",
          canvasInContainer |-> TRUE,
          animationId |-> [pending |-> TRUE],
          mounted |-> TRUE,
          cleanupRuns |-> 0,
          cleanupThrew |-> FALSE,
          isMobile |-> mobile,
          targets |-> TargetsAfterFrame(made.targets, "graph", start, pCount),
          positions |-> f.positions,
          colors |-> f.colors,
          mouse |-> << 0, 0 >>,
          camera |-> f.camera,
          rendererSize |-> vp,
          rotation |-> f.rotation,
          linesVisible |-> f.linesVisible,
          linePositions |-> f.linePositions,
          frames |-> 1,
          calls |-> 0 ]

\* the variables hold the state s
StateIs(s) ==
    /\ vizMode = s.vizMode
    /\ insight = s.insight
    /\ isUpdatingInsight = s.isUpdatingInsight
    /\ isOverlayMinimized = s.isOverlayMinimized
    /\ configRef = s.configRef
    /\ swapTimers = s.swapTimers
    /\ timeout = s.timeout
    /\ now = s.now
    /\ window = s.window
    /\ listeners = s.listeners
    /\ containerRef = s.containerRef
    /\ canvasInContainer = s.canvasInContainer
    /\ animationId = s.animationId
    /\ mounted = s.mounted
    /\ cleanupRuns = s.cleanupRuns
    /\ cleanupThrew = s.cleanupThrew
    /\ isMobile = s.isMobile
    /\ targets = s.targets
    /\ positions = s.positions
    /\ colors = s.colors
    /\ mouse = s.mouse
    /\ camera = s.camera
    /\ rendererSize = s.rendererSize
    /\ rotation = s.rotation
    /\ linesVisible = s.linesVisible
    /\ linePositions = s.linePositions
    /\ frames = s.frames
    /\ calls = s.calls

Init == \E vp \in Viewports, seed \in Seeds, start \in StartTimes :
            StateIs(MountedState(vp, seed, start))

uiVars == << vizMode, insight, isUpdatingInsight, isOverlayMinimized >>
sceneVars == << isMobile, targets, positions, colors, camera, rotation,
                linesVisible, linePositions, frames >>
lifeVars == << listeners, containerRef, canvasInContainer, animationId, mounted,
               cleanupRuns, cleanupThrew >>

\* a variant that swaps the description at once instead of after the fade
\*
changeVizModeEager(mode) ==
    /\ vizMode' = mode
    /\ configRef' = [configRef EXCEPT !.mode = mode]
    /\ insight' = Describe(mode)
    /\ isUpdatingInsight' = TRUE
    /\ swapTimers' = Append(swapTimers, [mode |-> mode, due |-> now + SwapDelayMs])
    /\ calls' = calls + 1
    /\ UNCHANGED << isOverlayMinimized, timeout, now, window, mouse, rendererSize >>
    /\ UNCHANGED sceneVars
    /\ UNCHANGED lifeVars

\* a variant that updates the React state but not the ref the frame loop
\* reads
changeVizModeStateOnly(mode) ==
    /\ vizMode' = mode
    /\ isUpdatingInsight' = TRUE
    /\ swapTimers' = Append(swapTimers, [mode |-> mode, due |-> now + SwapDelayMs])
    /\ calls' = calls + 1
    /\ UNCHANGED << configRef, insight, isOverlayMinimized, timeout, now, window, mouse, rendererSize >>
    /\ UNCHANGED sceneVars
    /\ UNCHANGED lifeVars

\* a variant that puts every particle on its new target at the switch
changeVizModeJump(mode) ==
    /\ vizMode' = mode
    /\ configRef' = [configRef EXCEPT !.mode = mode]
    /\ isUpdatingInsight' = TRUE
    /\ swapTimers' = Append(swapTimers, [mode |-> mode, due |-> now + SwapDelayMs])
    /\ calls' = calls + 1
    /\ positions' = targets[mode]
    /\ UNCHANGED << insight, isOverlayMinimized, timeout, now, window, mouse, rendererSize >>
    /\ UNCHANGED << isMobile, targets, colors, camera, rotation, linesVisible, linePositions,
                    frames >>
    /\ UNCHANGED lifeVars

\* changeVizMode(mode)
changeVizMode(mode) ==
    /\ vizMode' = mode
    /\ configRef' = [configRef EXCEPT !.mode = mode]
    /\ isUpdatingInsight' = TRUE
    /\ swapTimers' = Append(swapTimers, [mode |-> mode, due |-> now + SwapDelayMs])
    /\ calls' = calls + 1
    /\ UNCHANGED << insight, isOverlayMinimized, timeout, now, window, mouse, rendererSize >>
    /\ UNCHANGED sceneVars
    /\ UNCHANGED lifeVars

\* a click on one of the controls, while fewer than budget clicks and frames
\* have followed the mount
ClickWithin(budget) ==
    /\ mounted
    /\ calls + (frames - 1) < budget
    /\ \E a \in 1..Len(Affordances) : changeVizMode(Affordances[a].mode)

\* a click on one of the controls
Click == ClickWithin(MaxSteps)

\* the timer whose callback the event loop runs next is the one due first; of
\* two due at the same time, the one set first (the overlay effect's)
SwapIsNext ==
    /\ swapTimers # << >>
    /\ Head(swapTimers).due <= now
    /\ timeout.pending => Head(swapTimers).due < timeout.due

AutoIsNext ==
    /\ timeout.pending
    /\ timeout.due <= now
    /\ swapTimers # << >> => timeout.due <= Head(swapTimers).due

\* a variant in which the timer set last fires first
SwapInsightLastFirst ==
    /\ SwapIsNext
    /\ insight' = IF mounted THEN Describe(swapTimers[Len(swapTimers)].mode) ELSE insight
    /\ isUpdatingInsight' = IF mounted THEN FALSE ELSE isUpdatingInsight
    /\ swapTimers' = SubSeq(swapTimers, 1, Len(swapTimers) - 1)
    /\ UNCHANGED << vizMode, isOverlayMinimized, configRef, timeout, now, window, mouse,
                    rendererSize, calls >>
    /\ UNCHANGED sceneVars
    /\ UNCHANGED lifeVars

\* the callback changeVizMode gave to setTimeout; React drops a state update
\* made after the component has unmounted
SwapInsight ==
    /\ SwapIsNext
    /\ insight' = IF mounted THEN Describe(Head(swapTimers).mode) ELSE insight
    /\ isUpdatingInsight' = IF mounted THEN FALSE ELSE isUpdatingInsight
    /\ swapTimers' = Tail(swapTimers)
    /\ UNCHANGED << vizMode, isOverlayMinimized, configRef, timeout, now, window, mouse,
                    rendererSize, calls >>
    /\ UNCHANGED sceneVars
    /\ UNCHANGED lifeVars

\* the callback of the overlay effect's timer
AutoMinimize ==
    /\ AutoIsNext
    /\ timeout' = [timeout EXCEPT !.pending = FALSE]
    /\ isOverlayMinimized' = IF Narrow(window) THEN TRUE ELSE isOverlayMinimized
    /\ UNCHANGED << vizMode, insight, isUpdatingInsight, configRef, swapTimers, now, window,
                    mouse, rendererSize, calls >>
    /\ UNCHANGED sceneVars
    /\ UNCHANGED lifeVars

\* handleScroll, run for a scroll event while the listener is registered
Scroll ==
    /\ "scroll" \in listeners
    /\ isOverlayMinimized' = IF Narrow(window) THEN TRUE ELSE isOverlayMinimized
    /\ UNCHANGED << vizMode, insight, isUpdatingInsight, configRef, swapTimers, timeout, now,
                    window, mouse, rendererSize, calls >>
    /\ UNCHANGED sceneVars
    /\ UNCHANGED lifeVars

\* onClick of the insight overlay
ToggleOverlay ==
    /\ mounted
    /\ isOverlayMinimized' = ~isOverlayMinimized
    /\ UNCHANGED << vizMode, insight, isUpdatingInsight, configRef, swapTimers, timeout, now,
                    window, mouse, rendererSize, calls >>
    /\ UNCHANGED sceneVars
    /\ UNCHANGED lifeVars

\* onMouseMove, run for a mousemove event while the listener is registered
onMouseMove ==
    /\ "mousemove" \in listeners
    /\ \E p \in Pointers : mouse' = << p[1] * 2 - 100, 100 - p[2] * 2 >>
    /\ UNCHANGED << configRef, swapTimers, timeout, now, window, rendererSize, calls >>
    /\ UNCHANGED uiVars
    /\ UNCHANGED sceneVars
    /\ UNCHANGED lifeVars

\* a variant that tests the breakpoint again on every resize
onWindowResizeRetest ==
    /\ \E vp \in Viewports \ { window } :
          /\ window' = vp
          /\ IF "resize" \in listeners
               THEN /\ camera' = [camera EXCEPT !.aspect = Aspect(vp)]
                    /\ rendererSize' = vp
                    /\ isMobile' = Narrow(vp)
               ELSE UNCHANGED << camera, rendererSize, isMobile >>
    /\ UNCHANGED << configRef, swapTimers, timeout, now, mouse, calls >>
    /\ UNCHANGED << targets, positions, colors, rotation, linesVisible, linePositions, frames >>
    /\ UNCHANGED uiVars
    /\ UNCHANGED lifeVars

\* the window is resized; onWindowResize runs while its listener is registered
onWindowResize ==
    /\ \E vp \in Viewports \ { window } :
          /\ window' = vp
          /\ IF "resize" \in listeners
               THEN /\ camera' = [camera EXCEPT !.aspect = Aspect(vp)]
                    /\ rendererSize' = vp
               ELSE UNCHANGED << camera, rendererSize >>
    /\ UNCHANGED << configRef, swapTimers, timeout, now, mouse, calls >>
    /\ UNCHANGED << isMobile, targets, positions, colors, rotation, linesVisible,
                    linePositions, frames >>
    /\ UNCHANGED uiVars
    /\ UNCHANGED lifeVars

\* the clock advances
Tick ==
    /\ now + TickMs <= (timeout.due - AutoMinimizeMs) + MaxTicks * TickMs
    /\ now' = now + TickMs
    /\ UNCHANGED << configRef, swapTimers, timeout, window, mouse, rendererSize, calls >>
    /\ UNCHANGED uiVars
    /\ UNCHANGED sceneVars
    /\ UNCHANGED lifeVars

\* the browser runs the requested animation frame, while fewer than budget
\* clicks and frames have followed the mount
FrameWithin(budget) ==
    /\ animationId.pending
    /\ calls + (frames - 1) < budget
    /\ LET f == animate(configRef.mode, now, Scene)
       IN  /\ positions' = f.positions
           /\ colors' = f.colors
           /\ camera' = f.camera
           /\ rotation' = f.rotation
           /\ linesVisible' = f.linesVisible
           /\ linePositions' = f.linePositions
    /\ targets' = TargetsAfterFrame(targets, configRef.mode, now, configRef.particleCount)
    /\ animationId' = [pending |-> TRUE]
    /\ frames' = frames + 1
    /\ UNCHANGED << isMobile, configRef, swapTimers, timeout, now, window, mouse,
                    rendererSize, calls >>
    /\ UNCHANGED uiVars
    /\ UNCHANGED << listeners, containerRef, canvasInContainer, mounted, cleanupRuns,
                    cleanupThrew >>

\* the browser runs the requested animation frame
Frame == FrameWithin(MaxSteps)

\* the overlay effect's cleanup, on [listeners, timeout]
OverlayCleanup(s) ==
    [s EXCEPT !.listeners = s.listeners \ { "scroll" },
              !.timeout = [s.timeout EXCEPT !.pending = FALSE]]

\* the scene effect's cleanup, on [listeners, canvasInContainer, animationId, threw]
\* with ref the value of containerRef.current.  removeChild of a node that is
\* not a child raises NotFoundError, which ends the cleanup.
SceneCleanup(s, ref) ==
    LET off == [s EXCEPT !.listeners = s.listeners \ { "resize", "mousemove" }]
    IN  IF ref # "null" /\ ~off.canvasInContainer
          THEN [off EXCEPT !.threw = TRUE]
          ELSE [off EXCEPT !.canvasInContainer = IF ref # "null" THEN FALSE ELSE @,
                           !.animationId = [pending |-> FALSE]]

\* both cleanups, in the order of the effects
RunCleanups(ref) ==
    LET s == SceneCleanup(OverlayCleanup([ listeners |-> listeners, timeout |-> timeout,
                                           canvasInContainer |-> canvasInContainer,
                                           animationId |-> animationId, threw |-> FALSE ]),
                          ref)
    IN  /\ listeners' = s.listeners
        /\ timeout' = s.timeout
        /\ canvasInContainer' = s.canvasInContainer
        /\ animationId' = s.animationId
        /\ cleanupThrew' = s.threw
        /\ cleanupRuns' = cleanupRuns + 1

\* the component is unmounted.  React clears the ref of a deleted host element
\* before it runs the passive effect cleanups, so a cleanup of a real unmount
\* reads containerRef.current = null; a cleanup run with the element still in
\* place (a development re-run of the effects) reads the div.
Unmount ==
    /\ mounted
    /\ mounted' = FALSE
    /\ \E ref \in { "null", containerRef } :
          /\ containerRef' = ref
          /\ RunCleanups(ref)
    /\ UNCHANGED << configRef, swapTimers, now, window, mouse, rendererSize, calls >>
    /\ UNCHANGED uiVars
    /\ UNCHANGED sceneVars

\* the cleanups are invoked once more
CleanupAgain ==
    /\ ~mounted
    /\ cleanupRuns < MaxCleanups
    /\ RunCleanups(containerRef)
    /\ UNCHANGED << containerRef, mounted >>
    /\ UNCHANGED << configRef, swapTimers, now, window, mouse, rendererSize, calls >>
    /\ UNCHANGED uiVars
    /\ UNCHANGED sceneVars

Next ==
    \/ Click
    \/ SwapInsight
    \/ AutoMinimize
    \/ Scroll
    \/ ToggleOverlay
    \/ onMouseMove
    \/ onWindowResize
    \/ Tick
    \/ Frame
    \/ Unmount
    \/ CleanupAgain

Spec == Init /\ [][Next]_vars

(***************************************************************************)
(* updateLines on its own: the state between the Movement block of a frame *)
(* and its call of updateLines, for positions on a small grid.             *)
(***************************************************************************)
\* particles whose positions are drawn from the grid
LinesDrawn == 3

\* positions in whole units whose squared distances from the first are
\* 8, 12, 14, 30 and 9
Grid == { << 0, 0, 0 >>, << 2, 2, 0 >>, << 2, 2, 2 >>, << 1, 2, 3 >>,
          << 1, 2, 5 >>, << 3, 0, 0 >> }

\* the position buffer with particle i (from 0) at pts[i], for the i that pts gives
Place(pos, pts) ==
    [k \in DOMAIN pos |->
        IF (k - 1) \div 3 \in DOMAIN pts
          THEN pts[(k - 1) \div 3][((k - 1) % 3) + 1] * 100
          ELSE pos[k]]

\* a frame in mode m has moved the particles; the frame before it hid the lines
InitLines ==
    \E s \in { MountedState(vp, seed, start) :
                   vp \in Viewports, seed \in Seeds, start \in StartTimes } :
        \E m \in Modes, pts \in [0..(LinesDrawn - 1) -> Grid] :
            StateIs([s EXCEPT !.vizMode = m,
                              !.insight = Describe(m),
                              !.configRef = [s.configRef EXCEPT !.mode = m],
                              !.positions = Place(s.positions, pts),
                              !.linesVisible = FALSE,
                              !.linePositions = << >>])

\* the frame goes on to call updateLines
UpdateLinesStep ==
    /\ LET lines == updateLines(configRef.mode, positions, isMobile,
                                configRef.particleCount, linePositions)
       IN  /\ linesVisible' = lines.visible
           /\ linePositions' = lines.positions
    /\ UNCHANGED << isMobile, targets, positions, colors, camera, rotation, frames >>
    /\ UNCHANGED << configRef, swapTimers, timeout, now, window, mouse, rendererSize, calls >>
    /\ UNCHANGED uiVars
    /\ UNCHANGED lifeVars

NextLines == UpdateLinesStep

SpecLines == InitLines /\ [][NextLines]_vars

(***************************************************************************)
(* The claims.                                                             *)
(***************************************************************************)
\* the k-th segment (six numbers) of a line position list
Chunk(list, k) == SubSeq(list, 6 * (k - 1) + 1, 6 * k)

\* the pairs (i, j) a line rebuild compares
Compared ==
    { p \in (0..(configRef.particleCount - 1)) \X (0..(configRef.particleCount - 1)) :
        /\ p[1] % Step(isMobile) = 0
        /\ p[1] < p[2]
        /\ p[2] < p[1] + CheckLimit(isMobile) }

\* C1: the displayed description changes only while the panel is faded out:
\* every step that changes insight starts in a state where isUpdatingInsight holds.
CexC1 == [][insight' # insight => isUpdatingInsight]_vars

\* C2: a call changeVizMode(B) made with no swap timer pending sets
\* configRef.current.mode and vizMode to B at once and leaves the description;
\* the description stays as it is while that timer is pending; the timer fires
\* no sooner than 500 ms after the call, and the description of the mounted
\* component then becomes B's.
TheoremC2 ==
    [][ /\ (swapTimers = << >> /\ Len(swapTimers') = 1) =>
              /\ configRef'.mode = swapTimers'[1].mode
              /\ vizMode' = swapTimers'[1].mode
              /\ swapTimers'[1].due = now + 500
              /\ insight' = insight
        /\ (swapTimers # << >> /\ Len(swapTimers') >= Len(swapTimers)) =>
              insight' = insight
        /\ (Len(swapTimers') < Len(swapTimers)) =>
              /\ now >= Head(swapTimers).due
              /\ mounted => insight' = VIZ_DESCRIPTIONS[Head(swapTimers).mode] ]_vars

\* a single switch away from graph whose timer has fired: the description is
\* that of the new mode
WitnessC2 ==
    /\ calls = 1
    /\ swapTimers = << >>
    /\ configRef.mode = "topology"
    /\ insight = VIZ_DESCRIPTIONS["topology"]
    /\ ~isUpdatingInsight

\* C3: once the effect cleanups have run, no animation frame is pending, the
\* mousemove, resize and scroll listeners are gone, and the canvas is no longer
\* a child of the container.
CexC3 ==
    cleanupRuns >= 1 =>
        /\ ~animationId.pending
        /\ listeners \cap { "mousemove", "resize", "scroll" } = { }
        /\ ~canvasInContainer

\* C4: once the component has unmounted no deferred callback runs and none
\* writes component state: the auto-minimize timer and the pending swap timers
\* stay as the unmount left them, and so do insight, isUpdatingInsight and
\* isOverlayMinimized.
CexC4 ==
    [][~mounted =>
          /\ swapTimers' = swapTimers
          /\ timeout' = timeout
          /\ insight' = insight
          /\ isUpdatingInsight' = isUpdatingInsight
          /\ isOverlayMinimized' = isOverlayMinimized]_vars

\* C5: a second run of the cleanups raises nothing and changes nothing.
CexC5 ==
    [][(cleanupRuns >= 1 /\ cleanupRuns' = cleanupRuns + 1) =>
          /\ ~cleanupThrew'
          /\ listeners' = listeners
          /\ timeout' = timeout
          /\ animationId' = animationId
          /\ canvasInContainer' = canvasInContainer]_vars

\* C6: the active mode is one of the twelve identifiers, vizMode and
\* configRef.current.mode agree, every control passes one of the twelve, and
\* each of the twelve is passed by some control.
TheoremC6 ==
    LET twelve == { "graph", "orbit", "matrix", "threebody", "neural", "quant",
                    "nash", "lorenz", "golden", "topology", "calculus", "series" }
    IN  /\ Cardinality(twelve) = 12
        /\ configRef.mode \in twelve
        /\ vizMode = configRef.mode
        /\ \A a \in 1..Len(Affordances) : Affordances[a].mode \in twelve
        /\ \A m \in twelve : \E a \in 1..Len(Affordances) : Affordances[a].mode = m

\* two switches have been made, the second to nash
WitnessC6 == calls = 2 /\ vizMode = "nash" /\ Len(swapTimers) = 2

\* C7: no step changes the target table.
TheoremC7 == [][targets' = targets]_vars

\* after a switch to orbit, a pointer move and a resize, a frame has moved the
\* particles off their graph positions
WitnessC7 ==
    /\ frames = 2
    /\ configRef.mode = "orbit"
    /\ positions # targets.graph
    /\ mouse # << 0, 0 >>
    /\ rendererSize # << 1280, 720 >>
    /\ ~isMobile

\* C8: the position buffer, the color buffer and every mode's target buffer
\* hold exactly 3 N entries, N the particle count of the viewport.
TheoremC8 ==
    LET n == configRef.particleCount
    IN  /\ n = (IF isMobile THEN MobileCount ELSE DesktopCount)
        /\ DOMAIN positions = 1..(3 * n)
        /\ DOMAIN colors = 1..(3 * n)
        /\ DOMAIN targets = { "graph", "orbit", "matrix", "threebody", "neural", "quant",
                              "nash", "lorenz", "golden", "topology", "calculus", "series" }
        /\ \A m \in DOMAIN targets : DOMAIN targets[m] = 1..(3 * n)

\* a frame has run in neural mode (which rewrites the color buffer) on desktop
WitnessC8 ==
    /\ ~isMobile
    /\ frames = 2
    /\ configRef.mode = "neural"
    /\ colors[2] \notin { 69, 100 }

\* C9: a frame hides the line mesh exactly in the modes lorenz, quant, series,
\* topology, calculus and then leaves the segment list alone; in every other
\* mode each segment of the list it leaves joins the positions two particles
\* have after that frame, for a pair the rebuild compares.
TheoremC9 ==
    [][frames' = frames + 1 =>
          LET hidden == configRef.mode \in { "lorenz", "quant", "series", "topology", "calculus" }
          IN  /\ linesVisible' = ~hidden
              /\ hidden => linePositions' = linePositions
              /\ ~hidden =>
                    /\ Len(linePositions') % 6 = 0
                    /\ \A k \in 1..(Len(linePositions') \div 6) :
                          \E p \in Compared :
                              Chunk(linePositions', k) = Segment(positions', p[1], p[2])]_vars

\* a frame in lorenz mode has hidden the mesh and kept the segments of the
\* frame before it
WitnessC9 ==
    /\ frames = 2
    /\ configRef.mode = "lorenz"
    /\ ~linesVisible
    /\ Len(linePositions) = 6
    /\ positions # targets.graph

\* C10: after a rebuild, a compared pair has a segment in the list if and only
\* if its squared distance is strictly below the threshold of the mode
\* (neural 30, nash 8, matrix 14, otherwise 12).
TheoremC10 ==
    linesVisible =>
        LET mode == configRef.mode
            limit == (CASE mode = "neural" -> 30 [] mode = "nash" -> 8
                        [] mode = "matrix" -> 14 [] OTHER -> 12) * 10000
            close == { p \in Compared : DistSq(positions, p[1], p[2]) < limit }
            count == Len(linePositions) \div 6
        IN  /\ Len(linePositions) = 6 * Cardinality(close)
            /\ \A p \in close :
                  \E k \in 1..count : Chunk(linePositions, k) = Segment(positions, p[1], p[2])
            /\ \A k \in 1..count :
                  \E p \in close : Chunk(linePositions, k) = Segment(positions, p[1], p[2])

\* a rebuild in nash mode with one compared pair at squared distance exactly 8
\* (no segment) and one below it (a segment)
WitnessC10 ==
    /\ linesVisible
    /\ configRef.mode = "nash"
    /\ \E p \in Compared : DistSq(positions, p[1], p[2]) = 80000
    /\ Len(linePositions) = 6

\* the compared pairs whose squared distance is exactly 9
NineApart == { p \in Compared : DistSq(positions, p[1], p[2]) = 90000 }

\* the line list holds the segment of the pair p
Joined(p) ==
    \E k \in 1..(Len(linePositions) \div 6) :
        Chunk(linePositions, k) = Segment(positions, p[1], p[2])

\* C11 as stated: after a rebuild in nash mode, every compared pair whose
\* squared distance is 9 has a segment in the list.
CexC11 == (linesVisible /\ configRef.mode = "nash") => \A p \in NineApart : Joined(p)

\* C11 amended: after a rebuild in nash mode, no compared pair whose squared
\* distance is 9 has a segment in the list (9 is not below the threshold 8).
TheoremC11 == (linesVisible /\ configRef.mode = "nash") => \A p \in NineApart : ~Joined(p)

\* a rebuild in nash mode with a compared pair at squared distance 9 and
\* another pair that did get a segment
WitnessC11 ==
    /\ linesVisible
    /\ configRef.mode = "nash"
    /\ NineApart # { }
    /\ Len(linePositions) > 0

(***************************************************************************)
(* A longer run of the mounted page: clicks, frames and the clock only.    *)
(***************************************************************************)
\* clicks and frames together in the longer run
MaxRunSteps == 4

ClickInRun == ClickWithin(MaxRunSteps)

FrameInRun == FrameWithin(MaxRunSteps)

NextRun ==
    \/ ClickInRun
    \/ FrameInRun
    \/ Tick

SpecRun == Init /\ [][NextRun]_vars

\* what createParticles leaves, for each seed and particle count explored
Created ==
    [seed \in Seeds |-> [n \in { MobileCount, DesktopCount } |-> createParticles(seed, n)]]

\* the color buffer as createParticles left it in this run
InitialColors ==
    LET made == CHOOSE b \in { Created[seed][configRef.particleCount] : seed \in Seeds } :
                    b.targets = targets
    IN  made.colors

\* C12: every frame rendered in a mode other than neural leaves every particle
\* with the color createParticles assigned to it, whatever modes the frames
\* before it were rendered in.
CexC12 ==
    [][(frames' = frames + 1 /\ configRef.mode # "neural") => colors' = InitialColors]_vars

\* C13: the rotations a frame leaves depend on its mode and its time only:
\* yaw on both objects for lorenz, nash and orbit; yaw and pitch on the
\* particles for topology; roll on the particles for calculus; yaw at double
\* rate on the particles for series; zero on every axis of both objects
\* otherwise, whatever the rotations before the frame were.
TheoremC13 ==
    [][frames' = frames + 1 =>
          LET mode == configRef.mode
              angle == RDiv(now, 100)
              double == RDiv(now, 50)
              none == << 0, 0, 0 >>
          IN  /\ mode \in { "lorenz", "nash", "orbit" } =>
                    /\ rotation'.particles = << 0, angle, 0 >>
                    /\ rotation'.linesMesh = << 0, angle, 0 >>
              /\ mode = "topology" =>
                    /\ rotation'.particles = << angle, angle, 0 >>
                    /\ rotation'.linesMesh = none
              /\ mode = "calculus" =>
                    /\ rotation'.particles = << 0, 0, angle >>
                    /\ rotation'.linesMesh = none
              /\ mode = "series" =>
                    /\ rotation'.particles = << 0, double, 0 >>
                    /\ rotation'.linesMesh = none
              /\ mode \in { "graph", "matrix", "threebody", "neural", "quant", "golden" } =>
                    /\ rotation'.particles = none
                    /\ rotation'.linesMesh = none]_vars

\* a frame in topology, a switch to graph and a frame in graph: no pitch is left
WitnessC13 ==
    /\ frames = 3
    /\ Len(swapTimers) = 2
    /\ swapTimers[1].mode = "topology"
    /\ configRef.mode = "graph"
    /\ positions # targets.graph
    /\ rotation.particles = << 0, 0, 0 >>

\* C14: a resize of the window changes only the camera's aspect and the
\* renderer's size: the particle count, the stride and window of the neighbor
\* search, the target table, the positions, the colors and the active mode
\* stay as they were, also when the width crosses the 768 px breakpoint.
TheoremC14 ==
    [][window' # window =>
          /\ configRef'.particleCount = configRef.particleCount
          /\ Step(isMobile') = Step(isMobile)
          /\ CheckLimit(isMobile') = CheckLimit(isMobile)
          /\ targets' = targets
          /\ positions' = positions
          /\ colors' = colors
          /\ configRef'.mode = configRef.mode
          /\ vizMode' = vizMode
          /\ camera'.x = camera.x
          /\ camera'.y = camera.y
          /\ "resize" \in listeners =>
                /\ camera'.aspect = RDiv(window'[1] * 100, window'[2])
                /\ rendererSize' = window']_vars

\* a page mounted wide, resized below the breakpoint, and a frame after that:
\* still the desktop particle count and neighbor search
WitnessC14 ==
    /\ window[1] < 768
    /\ rendererSize = window
    /\ ~isMobile
    /\ configRef.particleCount = DesktopCount
    /\ frames = 2

(***************************************************************************)
(* createParticles on its own: the scene effect between its setup and its  *)
(* call of createParticles, for any particle count.                        *)
(***************************************************************************)
\* the largest particle count generated
MaxCreate == 6

\* the largest seed of Math.random generated with
MaxSeed == 9

CreateSeeds == 0..MaxSeed

\* the scene is set up, the buffers are not filled yet
InitCreate ==
    \E s \in { MountedState(vp, seed, start) :
                   vp \in Viewports, seed \in Seeds, start \in StartTimes } :
        \E n \in 1..MaxCreate :
            StateIs([s EXCEPT !.configRef = [s.configRef EXCEPT !.particleCount = n],
                              !.targets = [m \in Modes |-> << >>],
                              !.positions = [k \in 1..(3 * n) |-> 0],
                              !.colors = [k \in 1..(3 * n) |-> 0],
                              !.camera = [x |-> 0, y |-> 800, aspect |-> Aspect(s.window)],
                              !.linesVisible = TRUE,
                              !.linePositions = << >>,
                              !.listeners = { "scroll" },
                              !.animationId = [pending |-> FALSE],
                              !.frames = 0])

\* the effect calls createParticles
CreateStep ==
    /\ targets.graph = << >>
    /\ \E seed \in CreateSeeds :
          LET made == createParticles(seed, configRef.particleCount)
          IN  /\ targets' = made.targets
              /\ positions' = made.positions
              /\ colors' = made.colors
    /\ UNCHANGED << isMobile, camera, rotation, linesVisible, linePositions, frames >>
    /\ UNCHANGED << configRef, swapTimers, timeout, now, window, mouse, rendererSize, calls >>
    /\ UNCHANGED uiVars
    /\ UNCHANGED lifeVars

NextCreate == CreateStep

SpecCreate == InitCreate /\ [][NextCreate]_vars

\* what createParticles leaves for each seed and each count up to MaxCreate
CreatedUpTo ==
    [seed \in CreateSeeds |-> [n \in 1..MaxCreate |-> createParticles(seed, n)]]

RECURSIVE LorenzAfter(_)
\* the Lorenz state after n Euler steps from (0.1, 0, 0), in thousandths
LorenzAfter(n) ==
    IF n = 0 THEN [x |-> 100, y |-> 0, z |-> 0] ELSE LorenzStep(LorenzAfter(n - 1))

\* C15: the lorenz targets generated for k particles are the first k triples
\* of those generated for any larger count N, whatever Math.random returns,
\* and triple i is the scaled state after i + 1 Euler steps from (0.1, 0, 0).
TheoremC15 ==
    targets.lorenz # << >> =>
        LET k == configRef.particleCount
        IN  /\ Len(targets.lorenz) = 3 * k
            /\ \A seed \in CreateSeeds : \A N \in (k + 1)..MaxCreate :
                  SubSeq(CreatedUpTo[seed][N].targets.lorenz, 1, 3 * k) = targets.lorenz
            /\ \A i \in 0..(k - 1) :
                  LET l == LorenzAfter(i + 1)
                  IN  SubSeq(targets.lorenz, 3 * i + 1, 3 * i + 3) =
                          << RDiv(l.x * 8, 100), RDiv(l.y * 8, 100),
                             RDiv((l.z - 25000) * 8, 100) >>

\* three particles have been generated; larger counts exist to compare with
WitnessC15 ==
    /\ configRef.particleCount = 3
    /\ Len(targets.lorenz) = 9
    /\ targets.lorenz[1] = 7
    /\ frames = 0

\* the pairs C16 says a line rebuild compares: i a multiple of the stride,
\* i < j <= i + W, j < N
WindowPairs ==
    { p \in (0..(configRef.particleCount - 1)) \X (0..(configRef.particleCount - 1)) :
        /\ p[1] % (IF isMobile THEN MobileStep ELSE DesktopStep) = 0
        /\ p[1] < p[2]
        /\ p[2] <= p[1] + (IF isMobile THEN MobileCheckLimit ELSE DesktopCheckLimit) }

\* C16: a rebuild compares exactly the pairs (i, j) with i a multiple of the
\* stride, i < j <= i + W and j < N: the list it leaves has one segment for
\* each of those pairs that is closer than the threshold.
CexC16 ==
    linesVisible =>
        Len(linePositions) =
            6 * Cardinality({ p \in WindowPairs :
                                DistSq(positions, p[1], p[2]) < Threshold(configRef.mode) * 10000 })

\* C17: a frame uses one mode throughout, the mode of the latest changeVizMode
\* call (vizMode): its rotations, its recoloring, the target of every particle
\* and its line rule are those of that mode.
TheoremC17 ==
    [][frames' = frames + 1 =>
          LET B == vizMode
              n == configRef.particleCount
              lines == updateLines(B, positions', isMobile, n, linePositions)
          IN  /\ rotation' = LateRotation(EarlyRotation(rotation, B, now), B, now)
              /\ colors' = NeuralPulse(colors, positions, B, now, n)
              /\ \A i \in 0..(n - 1) : \A c \in 1..3 :
                    positions'[3 * i + c] =
                        Ease(positions[3 * i + c], MoveTarget(targets, B, now, i)[c])
              /\ linesVisible' = lines.visible
              /\ linePositions' = lines.positions]_vars

\* the first frame after a switch to topology: pitch, particles on their way,
\* no lines
WitnessC17 ==
    /\ calls = 1
    /\ frames = 2
    /\ vizMode = "topology"
    /\ rotation.particles[1] # 0
    /\ positions # targets.graph
    /\ ~linesVisible

\* C18: a changeVizMode call changes the active mode, vizMode and
\* isUpdatingInsight and schedules one description swap; it leaves every
\* position, color, target buffer and rotation as it was.
TheoremC18 ==
    [][calls' = calls + 1 =>
          /\ vizMode' = configRef'.mode
          /\ isUpdatingInsight'
          /\ Len(swapTimers') = Len(swapTimers) + 1
          /\ SubSeq(swapTimers', 1, Len(swapTimers)) = swapTimers
          /\ swapTimers'[Len(swapTimers')].mode = vizMode'
          /\ positions' = positions
          /\ colors' = colors
          /\ targets' = targets
          /\ rotation' = rotation
          /\ insight' = insight
          /\ isOverlayMinimized' = isOverlayMinimized
          /\ frames' = frames]_vars

\* a frame in graph and then a switch to orbit: the particles are still where
\* the frame left them
WitnessC18 ==
    /\ calls = 1
    /\ frames = 2
    /\ configRef.mode = "orbit"
    /\ positions = targets.graph
    /\ positions # targets.orbit
    /\ isUpdatingInsight

(***************************************************************************)
(* Frames from a state in which the first particle is a small distance     *)
(* from its target.                                                        *)
(***************************************************************************)
\* distances from the target, in hundredths, on each axis
Offsets == { -13, -12, 0, 1 }

\* frames have left the first particle of mode m at the offsets d from its target
InitEase ==
    \E s \in { MountedState(vp, seed, start) :
                   vp \in Viewports, seed \in Seeds, start \in StartTimes } :
        \E m \in Modes, d \in [1..3 -> Offsets] :
            StateIs([s EXCEPT !.vizMode = m,
                              !.insight = Describe(m),
                              !.configRef = [s.configRef EXCEPT !.mode = m],
                              !.positions = [k \in DOMAIN s.positions |->
                                                IF k <= 3 THEN s.targets[m][k] + d[k]
                                                ELSE s.positions[k]]])

NextEase ==
    \/ FrameInRun
    \/ Tick

SpecEase == InitEase /\ [][NextEase]_vars

\* the absolute value
Abs(a) == IF a < 0 THEN -a ELSE a

\* C19: a frame moves every coordinate toward its current target by the
\* fraction 0.04 of the gap (to the rounding of the stored number); where the
\* target does not depend on time, the gap keeps its sign, does not grow, and
\* a coordinate that is not at its target is not at it after the frame either.
TheoremC19 ==
    [][frames' = frames + 1 =>
          \A i \in 0..(configRef.particleCount - 1) : \A c \in 1..3 :
              LET t == MoveTarget(targets, configRef.mode, now, i)[c]
                  p == positions[3 * i + c]
                  q == positions'[3 * i + c]
              IN  /\ 100 * (q - p) - 4 * (t - p) \in -50..50
                  /\ configRef.mode \in { "graph", "neural", "nash", "lorenz", "golden",
                                          "topology", "calculus", "series" } =>
                        /\ t = targets[configRef.mode][3 * i + c]
                        /\ (t - p) * (t - q) >= 0
                        /\ Abs(t - q) <= Abs(t - p)
                        /\ p # t => q # t]_vars

\* four frames in golden mode: the first particle is still short of its
\* target on an axis where it started 0.13 away
WitnessC19 ==
    /\ frames = 5
    /\ configRef.mode = "golden"
    /\ Abs(targets.golden[1] - positions[1]) \in 1..12
    /\ positions[2] = targets.golden[2]

\* C20: once every swap timer of a mounted page has fired, the description
\* shown is that of the active mode, it is an entry of VIZ_DESCRIPTIONS, and
\* the panel is not faded out.
TheoremC20 ==
    (mounted /\ swapTimers = << >>) =>
        /\ vizMode \in DOMAIN VIZ_DESCRIPTIONS
        /\ insight = VIZ_DESCRIPTIONS[vizMode]
        /\ ~isUpdatingInsight

\* two switches, the second to series, and both timers fired
WitnessC20 ==
    /\ mounted
    /\ calls = 2
    /\ swapTimers = << >>
    /\ vizMode = "series"
    /\ insight = VIZ_DESCRIPTIONS["series"]

====
